---- MODULE Spec2Model ----
(***************************************************************************)
(* Request/link orchestration of the listing crawler: the durable store    *)
(* (requests, search_links, listings), the result sink (sheets), and the   *)
(* scheduler's processNextRequest with its retry queue, consecutive-       *)
(* failure pause, resume, cross-link deduplication and finalisation.       *)
(*                                                                         *)
(* One Request is followed through its whole life (requests share no rows  *)
(* of the store and a scheduler handles them one after the other).         *)
(* Store operations are taken to succeed unless the schema rejects the     *)
(* written value; fetches, sheet creation, browser start-up and detail     *)
(* enrichment may fail.                                                    *)
(*                                                                         *)
(* Two parts are followed on their own: one enrichListings call (job       *)
(* sender, two workers, pacing ticker, collector) under SpecEnrich, and    *)
(* one GeneratePriceRangeURLs call of the price-range sharder under        *)
(* SpecShard.                                                              *)
(***************************************************************************)
EXTENDS Integers, Sequences, FiniteSets, TLC

\* ------------------------------------------------------------------ bounds
NumInstances == 2
NumLinks == 2
NumURLs == 1
MaxListings == 3
MaxParsed == 2
MaxSleepers == 1
MaxSheets == 2
\* width of the machine integer (the build's int is wider; the arithmetic of
\* the price windows wraps in the same way at any width)
IntBits == 9

\* ------------------------------------------------------- program constants
MaxRetry == 3
PauseThreshold == 2
BaseWait == 3
MaxWait == 5
MinReviews == 10
MinPrice == 0
MaxPrice == 2000
NumWorkers == 2
DefaultStep == 50

Inst == 1..NumInstances
LinkNo == 1..NumLinks
URLs == 1..NumURLs
\* the URLs of the kept listings of one link
EnrichURLs == 1..MaxListings
\* the goroutines a worker pool can be made of
Workers == 1..MaxListings

VARIABLES
    \* durable store
    pausedAllowed,  \* whether requests.status accepts 'paused'
    reqStatus,      \* requests.status
    reqSheet,       \* requests.sheet_name: 0 = NULL, k = the k-th sheet made
    reqListings,    \* requests.listings_count
    nlinks,         \* number of search_links rows of the request
    link,           \* search_links rows by link_number: status, retry, count, err
    dbListings,     \* listings rows: per url, the link_number of each row
    \* result sink
    sheets,         \* the sheets created, each: per url, its rows [link, kept]
    \* one processNextRequest activation per scheduler instance
    pc,             \* "idle", "claimed", "started", "loop", "fetch", "handle"
    reqSnapSheet,   \* req.SheetName as read by GetNextCreatedRequest
    sheetName, queue, item, seenListingURLs, consecutiveFailures,
    linksSuccessful, linksFailed, totalKept, waitMinutes,
    fetched,        \* what Fetch and ParseHTML returned for the current item
    \* last status notification sent
    ev,
    \* history: first link whose successful attempt parsed the URL
    firstObs,
    \* history: an append of a link's rows to the sheet has failed
    appendFailed,
    activeRequests,    \* per instance: the active request counter
    restart,           \* per instance: the delayed restart goroutines
    successPc,         \* per instance: how far the success branch of the attempt got
    linkListings,      \* per instance: the enriched listings processSearchLink returned
    linkUnfiltered,    \* per instance: the unfiltered listings it returned
    \* one enrichListings call
    enrichPc,          \* "off", "start", "running", "returned"
    listings,          \* the kept listings passed in, by URL
    urlToIDMap,        \* the URLs that have a persisted listing id
    listingStatus,     \* listings.status of the persisted rows, by URL
    sent,              \* how many listings the job sender has gone through
    jobs, jobsClosed,  \* the jobs channel (indices) and whether it is closed
    worker,            \* per worker: "unused", "wait", "fetching", "exited", and its job
    results, resultsClosed,  \* the results channel and whether it is closed
    sendOnClosed,
    produced,          \* per input index: the results sent for it so far      \* a send hit a closed channel
    tickPending,       \* the pacing ticker has a tick to deliver
    ticksConsumed, admitted,  \* history: ticks taken and jobs sent by the sender
    enrichedListings, processedCount,
    finalListings,     \* the value returned
    \* one GeneratePriceRangeURLs call
    shardPc,           \* "off", "call", "returned"
    urlStr, step,      \* its arguments
    ranges,            \* its result
    \* one ApplyFilters call
    filterPc,          \* "off", "call", "returned"
    filterCfg,         \* the filter configuration
    filterInput,       \* the listings passed in
    filtered           \* the listings returned

store == <<pausedAllowed, reqStatus, reqSheet, reqListings, nlinks, link, dbListings>>
locals == <<pc, reqSnapSheet, sheetName, queue, item, seenListingURLs,
            consecutiveFailures, linksSuccessful, linksFailed, totalKept, waitMinutes,
            fetched, activeRequests, restart, successPc, linkListings, linkUnfiltered>>
vars == <<pausedAllowed, reqStatus, reqSheet, reqListings, nlinks, link, dbListings,
          sheets, pc, reqSnapSheet, sheetName, queue, item, seenListingURLs,
          consecutiveFailures, linksSuccessful, linksFailed, totalKept, waitMinutes,
          fetched, ev, firstObs, appendFailed, activeRequests, restart,
          successPc, linkListings, linkUnfiltered,
          enrichPc, listings, urlToIDMap, listingStatus, sent, jobs, jobsClosed, worker,
          results, resultsClosed, sendOnClosed, produced, tickPending, ticksConsumed,
          admitted,
          enrichedListings, processedCount, finalListings,
          shardPc, urlStr, step, ranges,
          filterPc, filterCfg, filterInput, filtered>>
\* what the success branch of an attempt keeps between its store writes
attempt == <<successPc, linkListings, linkUnfiltered>>
\* the variables of the request orchestration
main == <<store, sheets, locals, ev, firstObs, appendFailed>>
\* the variables of one enrichListings call
enrichVars == <<enrichPc, listings, urlToIDMap, listingStatus, sent, jobs, jobsClosed,
                worker, results, resultsClosed, sendOnClosed, produced, tickPending,
                ticksConsumed,
                admitted, enrichedListings, processedCount, finalListings>>
\* the variables of one GeneratePriceRangeURLs call
shardVars == <<shardPc, urlStr, step, ranges>>
\* the variables of one ApplyFilters call
filterVars == <<filterPc, filterCfg, filterInput, filtered>>
\* what the request orchestration leaves alone
aux == <<enrichVars, shardVars, filterVars>>

\* ------------------------------------------------------------------ schema
\* CHECK constraint of requests.status as created by initSchema
SchemaRequestStatus == {"created", "in_progress", "done", "failed"}
\* the Request statuses of the data model
RequestStatus == {"created", "in_progress", "paused", "done", "failed"}
LinkStatus == {"pending", "in_progress", "done", "failed"}

AcceptedRequestStatus(allowed) ==
    IF allowed THEN RequestStatus ELSE SchemaRequestStatus

\* UPDATE requests SET status = s; a value the CHECK constraint rejects
\* leaves the row as it was (the caller only logs the error)
UpdateRequestStatus(rs, allowed, s) ==
    IF s \in AcceptedRequestStatus(allowed) THEN s ELSE rs

\* last_error: "none" is NULL
LinkError == {"fetch_failed", "no_pages"}
NewLink == [status |-> "pending", retry |-> 0, count |-> 0, counted |-> FALSE,
            err |-> "none"]

\* UPDATE search_links SET status, last_error
UpdateSearchLinkStatus(lk, l, s, e) ==
    [lk EXCEPT ![l].status = s, ![l].err = e]

\* variant: only the retry count is written
IncrementSearchLinkRetryCountOnly(lk, l) ==
    [lk EXCEPT ![l].retry = @ + 1]

\* UPDATE search_links SET retry_count = retry_count + 1, status = 'pending'
IncrementSearchLinkRetry(lk, l) ==
    [lk EXCEPT ![l].retry = @ + 1, ![l].status = "pending"]

UpdateSearchLinkListingsCount(lk, l, n) ==
    [lk EXCEPT ![l].count = n, ![l].counted = TRUE]

\* ------------------------------------------------------------------ filter
\* a parsed listing, by the fields the filter reads
Passing == [reviews |-> MinReviews, price |-> MaxPrice]
FewReviews == [reviews |-> MinReviews - 1, price |-> MaxPrice]
\* no listing parsed for the URL
Absent == [reviews |-> -1, price |-> -1]
ListingKinds == {Passing, FewReviews}

\* the filter configuration of a user who changed nothing
DefaultFilters == [MinReviews |-> MinReviews, MinPrice |-> MinPrice, MaxPrice |-> MaxPrice]

\* variant: a price that was not extracted is held against the bounds too
matchesFiltersAnyPrice(cfg, l) ==
    IF l.reviews < cfg.MinReviews THEN FALSE
    ELSE IF l.price < cfg.MinPrice \/ l.price > cfg.MaxPrice THEN FALSE
    ELSE TRUE

matchesFilters(cfg, l) ==
    IF l.reviews < cfg.MinReviews THEN FALSE
    ELSE IF l.price > 0 /\ (l.price < cfg.MinPrice \/ l.price > cfg.MaxPrice) THEN FALSE
    ELSE TRUE

RECURSIVE ApplyFilters(_, _)
\* the listings that match, appended one by one in the order of the input
ApplyFilters(cfg, ls) ==
    IF ls = <<>> THEN <<>>
    ELSE (IF matchesFilters(cfg, Head(ls)) THEN <<Head(ls)>> ELSE <<>>)
            \o ApplyFilters(cfg, Tail(ls))

\* ------------------------------------------------------------------ helpers
RECURSIVE QueueOfAll(_, _, _)
\* variant: done links are queued as well
QueueOfAll(lk, n, l) ==
    IF l > n THEN <<>>
    ELSE <<[link |-> l, retryCount |-> lk[l].retry]>> \o QueueOfAll(lk, n, l + 1)

RECURSIVE QueueFrom(_, _, _)
\* queue of all links that are not done, in link-number order
QueueFrom(lk, n, l) ==
    IF l > n THEN <<>>
    ELSE (IF lk[l].status = "done" THEN <<>>
          ELSE <<[link |-> l, retryCount |-> lk[l].retry]>>) \o QueueFrom(lk, n, l + 1)

RECURSIVE LastDone(_, _)
\* link number of the last row of rows whose link is done, 0 if none
LastDone(rows, lk) ==
    IF rows = <<>> THEN 0
    ELSE IF lk[rows[Len(rows)]].status = "done" THEN rows[Len(rows)]
    ELSE LastDone(SubSeq(rows, 1, Len(rows) - 1), lk)

\* variant: a run starts with an empty dedup set
HydrateNothing(db, lk) == [u \in URLs |-> 0]

\* seenListingURLs hydrated from the listings rows of links that are done
HydrateSeen(db, lk) == [u \in URLs |-> LastDone(db[u], lk)]

\* variant: the back-off starts one minute late
WaitMinutesFromRetry(rc) ==
    IF BaseWait + rc > MaxWait THEN MaxWait ELSE BaseWait + rc

\* waitMinutes of a popped item with retryCount rc > 0
WaitMinutes(rc) ==
    IF BaseWait + (rc - 1) > MaxWait THEN MaxWait ELSE BaseWait + (rc - 1)

\* results of Fetch and ParseHTML: a fetch error, or the pages collected (0 or
\* 1 here) and the listing parsed for each URL
NoPages == [u \in URLs |-> Absent]
NoFetch == [err |-> FALSE, pages |-> -1, parsed |-> NoPages]
FetchError == [err |-> TRUE, pages |-> 0, parsed |-> NoPages]
ZeroPages == [err |-> FALSE, pages |-> 0, parsed |-> NoPages]
Pages(parsed) == [err |-> FALSE, pages |-> 1, parsed |-> parsed]

\* variant: nothing is an error
processSearchLinkErrNever(f) == "none"

\* variant: only a fetch error is an error
processSearchLinkErrFetchOnly(f) ==
    IF f.err THEN "fetch_failed"
    ELSE "none"

\* variant: pages without any listing are an error
processSearchLinkErrOnEmpty(f) ==
    IF f.err THEN "fetch_failed"
    ELSE IF f.pages = 0 \/ f.parsed = NoPages THEN "no_pages"
    ELSE "none"

\* the error processSearchLink returns for what was fetched and parsed
processSearchLinkErr(f) ==
    IF f.err THEN "fetch_failed"
    ELSE IF f.pages = 0 THEN "no_pages"
    ELSE "none"

\* no restart goroutine is sleeping, none has decided to exit
NoRestart == [sleeping |-> 0, exiting |-> FALSE]

NoItem == [link |-> 0, retryCount |-> 0]
NoEv == [type |-> "none", link |-> 0, a |-> 0, b |-> 0]
Ev(t, l, a, b) == [type |-> t, link |-> l, a |-> a, b |-> b]
EmptySheet == [u \in URLs |-> <<>>]
NoneSeen == [u \in URLs |-> 0]

\* -------------------------------------------------------------------- init
\* a request as the inbound handler leaves it: created, with the links of
\* its price ranges, or without any link (legacy request)
InitRequest ==
    /\ pausedAllowed \in BOOLEAN
    /\ reqStatus = "created"
    /\ reqSheet = 0
    /\ reqListings = 0
    /\ nlinks \in {0, NumLinks}
    /\ link = [l \in LinkNo |-> NewLink]
    /\ dbListings = [u \in URLs |-> <<>>]
    /\ sheets = <<>>
    /\ pc = [i \in Inst |-> "idle"]
    /\ reqSnapSheet = [i \in Inst |-> 0]
    /\ sheetName = [i \in Inst |-> 0]
    /\ queue = [i \in Inst |-> <<>>]
    /\ item = [i \in Inst |-> NoItem]
    /\ seenListingURLs = [i \in Inst |-> NoneSeen]
    /\ consecutiveFailures = [i \in Inst |-> 0]
    /\ linksSuccessful = [i \in Inst |-> 0]
    /\ linksFailed = [i \in Inst |-> 0]
    /\ totalKept = [i \in Inst |-> 0]
    /\ waitMinutes = [i \in Inst |-> 0]
    /\ fetched = [i \in Inst |-> NoFetch]
    /\ ev = NoEv
    /\ firstObs = [u \in URLs |-> 0]
    /\ appendFailed = FALSE
    /\ activeRequests = [i \in Inst |-> 0]
    /\ restart = [i \in Inst |-> NoRestart]
    /\ successPc = [i \in Inst |-> "none"]
    /\ linkListings = [i \in Inst |-> {}]
    /\ linkUnfiltered = [i \in Inst |-> {}]

\* no enrichListings call is followed
EnrichOff ==
    /\ enrichPc = "off"
    /\ listings = <<>>
    /\ urlToIDMap = {}
    /\ listingStatus = [u \in EnrichURLs |-> "none"]
    /\ sent = 0
    /\ jobs = <<>>
    /\ jobsClosed = FALSE
    /\ worker = [w \in Workers |-> [state |-> "unused", index |-> 0]]
    /\ results = <<>>
    /\ resultsClosed = FALSE
    /\ sendOnClosed = FALSE
    /\ produced = [k \in 1..MaxListings |-> 0]
    /\ tickPending = FALSE
    /\ ticksConsumed = 0
    /\ admitted = 0
    /\ enrichedListings = <<>>
    /\ processedCount = 0
    /\ finalListings = <<>>

\* a query parameter's value: not in the URL, empty, not a number, or a number
NoParam == [k |-> "absent", n |-> 0]
EmptyParam == [k |-> "empty", n |-> 0]
TextParam == [k |-> "text", n |-> 0]
IntParam(n) == [k |-> "int", n |-> n]
\* the selected_filter_order[] parameter: whether it is in the URL, and its values
NoOrder == [present |-> FALSE, list |-> <<>>]
\* a URL by its query: price_min, price_max, one other parameter and the
\* ordered selected-filter list
NoURL == [price_min |-> NoParam, price_max |-> NoParam, other |-> NoParam, order |-> NoOrder]

\* no GeneratePriceRangeURLs call is followed
ShardOff ==
    /\ shardPc = "off"
    /\ urlStr = NoURL
    /\ step = 0
    /\ ranges = [err |-> "none", ranges |-> <<>>]

\* no ApplyFilters call is followed
FilterOff ==
    /\ filterPc = "off"
    /\ filterCfg = DefaultFilters
    /\ filterInput = <<>>
    /\ filtered = <<>>

Init == InitRequest /\ EnrichOff /\ ShardOff /\ FilterOff

\* variant: a restart is scheduled whatever the counter says
ScheduleRestartAlways(r, activeCount) ==
    [r EXCEPT !.sleeping = IF @ < MaxSleepers THEN @ + 1 ELSE @]

\* if activeCount == 0 { go func() { time.Sleep(2 * time.Second) ... }() }
ScheduleRestart(r, activeCount) ==
    IF activeCount = 0
    THEN [r EXCEPT !.sleeping = IF @ < MaxSleepers THEN @ + 1 ELSE @]
    ELSE r

\* s.activeRequests++ under the mutex
incrementActiveRequest(n) == n + 1

\* s.activeRequests-- under the mutex
decrementActiveRequest(n) == n - 1

\* the locals of the processNextRequest call are gone
DropLocals(i) ==
    /\ pc' = [pc EXCEPT ![i] = "idle"]
    /\ successPc' = [successPc EXCEPT ![i] = "none"]
    /\ linkListings' = [linkListings EXCEPT ![i] = {}]
    /\ linkUnfiltered' = [linkUnfiltered EXCEPT ![i] = {}]
    /\ reqSnapSheet' = [reqSnapSheet EXCEPT ![i] = 0]
    /\ sheetName' = [sheetName EXCEPT ![i] = 0]
    /\ queue' = [queue EXCEPT ![i] = <<>>]
    /\ item' = [item EXCEPT ![i] = NoItem]
    /\ seenListingURLs' = [seenListingURLs EXCEPT ![i] = NoneSeen]
    /\ consecutiveFailures' = [consecutiveFailures EXCEPT ![i] = 0]
    /\ linksSuccessful' = [linksSuccessful EXCEPT ![i] = 0]
    /\ linksFailed' = [linksFailed EXCEPT ![i] = 0]
    /\ totalKept' = [totalKept EXCEPT ![i] = 0]
    /\ waitMinutes' = [waitMinutes EXCEPT ![i] = 0]
    /\ fetched' = [fetched EXCEPT ![i] = NoFetch]

\* processNextRequest returns: the deferred decrement runs
Return(i) ==
    /\ activeRequests' = [activeRequests EXCEPT ![i] = decrementActiveRequest(@)]
    /\ restart' = [restart EXCEPT ![i] =
                      ScheduleRestart(@, decrementActiveRequest(activeRequests[i]))]
    /\ DropLocals(i)

\* ----------------------------------------------------------------- actions
\* variant: a paused request is returned as well
GetNextUnfinishedRequest(rs) == rs \in {"created", "paused"}

\* SELECT ... WHERE status = 'created' ... FOR UPDATE SKIP LOCKED, run as a
\* statement of its own: the row lock ends with the statement, so the row
\* is returned to every caller that finds it 'created'
GetNextCreatedRequest(rs) == rs = "created"

\* processNextRequest up to the request it got
ClaimNext(i) ==
    /\ pc[i] = "idle"
    /\ GetNextCreatedRequest(reqStatus)
    /\ reqSnapSheet' = [reqSnapSheet EXCEPT ![i] = reqSheet]
    /\ pc' = [pc EXCEPT ![i] = "claimed"]
    /\ activeRequests' = [activeRequests EXCEPT ![i] = incrementActiveRequest(@)]
    /\ UNCHANGED <<store, sheets, sheetName, queue, item, seenListingURLs,
                   consecutiveFailures, linksSuccessful, linksFailed, totalKept,
                   waitMinutes, fetched, ev, firstObs, appendFailed, attempt, restart>>
    /\ UNCHANGED aux

\* variant: the stored sheet name is ignored
NeverReuseSheet(snap) == FALSE

\* req.SheetName.Valid && req.SheetName.String != ""
ReuseSheet(snap) == snap # 0

\* the request got is marked in_progress
MarkInProgress(i) ==
    /\ pc[i] = "claimed"
    /\ reqStatus' = UpdateRequestStatus(reqStatus, pausedAllowed, "in_progress")
    /\ pc' = [pc EXCEPT ![i] = "started"]
    /\ UNCHANGED <<pausedAllowed, reqSheet, reqListings, nlinks, link, dbListings, sheets,
                   reqSnapSheet, sheetName, queue, item, seenListingURLs,
                   consecutiveFailures, linksSuccessful, linksFailed, totalKept,
                   waitMinutes, fetched, ev, firstObs, appendFailed, activeRequests, restart, attempt>>
    /\ UNCHANGED aux

\* the part of processNextRequest after the update to in_progress up to the
\* built retry queue: links loaded (one synthesised for a legacy request),
\* sheet created or reused, browser started, dedup set hydrated
StartRequest(i) ==
    /\ pc[i] = "started"
    /\ LET n == IF nlinks = 0 THEN 1 ELSE nlinks
           reuse == ReuseSheet(reqSnapSheet[i])
           newName == Len(sheets) + 1
       IN
       /\ nlinks' = n
       /\ \/ \* sheet ready and browser started
             /\ UNCHANGED reqStatus
             /\ IF reuse
                THEN /\ sheetName' = [sheetName EXCEPT ![i] = reqSnapSheet[i]]
                     /\ UNCHANGED <<sheets, reqSheet>>
                     /\ ev' = Ev("processing", 0, n, 0)
                ELSE /\ sheetName' = [sheetName EXCEPT ![i] = newName]
                     /\ sheets' = Append(sheets, EmptySheet)
                     /\ reqSheet' = newName
                     /\ ev' = Ev("sheet_ready", 0, n, 0)
             /\ seenListingURLs' = [seenListingURLs EXCEPT ![i] = HydrateSeen(dbListings, link)]
             /\ queue' = [queue EXCEPT ![i] = QueueFrom(link, n, 1)]
             /\ linksSuccessful' = [linksSuccessful EXCEPT ![i] =
                                      Cardinality({l \in 1..n : link[l].status = "done"})]
             /\ pc' = [pc EXCEPT ![i] = "loop"]
             /\ UNCHANGED <<reqSnapSheet, item, consecutiveFailures, linksFailed,
                            totalKept, waitMinutes, fetched, activeRequests, restart, attempt>>
          \/ \* CreateEmptySheet fails: handleRequestError
             /\ ~reuse
             /\ reqStatus' = UpdateRequestStatus(reqStatus, pausedAllowed, "failed")
             /\ ev' = Ev("request_failed:sheet", 0, 0, 0)
             /\ Return(i)
             /\ UNCHANGED <<sheets, reqSheet>>
          \/ \* NewRodFetcher fails after the sheet step: handleRequestError
             /\ reqStatus' = UpdateRequestStatus(reqStatus, pausedAllowed, "failed")
             /\ IF reuse
                THEN UNCHANGED <<sheets, reqSheet>>
                ELSE /\ sheets' = Append(sheets, EmptySheet)
                     /\ reqSheet' = newName
             /\ ev' = Ev("request_failed:browser", 0, 0, 0)
             /\ Return(i)
    /\ UNCHANGED <<pausedAllowed, reqListings, link, dbListings, firstObs, appendFailed>>
    /\ UNCHANGED aux

\* head of the retry loop: pop the first item, back off if it is a retry,
\* announce it and mark the link in_progress
PopItem(i) ==
    /\ pc[i] = "loop"
    /\ queue[i] # <<>>
    /\ LET it == Head(queue[i])
       IN
       /\ item' = [item EXCEPT ![i] = it]
       /\ queue' = [queue EXCEPT ![i] = Tail(@)]
       /\ waitMinutes' = [waitMinutes EXCEPT ![i] =
                            IF it.retryCount > 0 THEN WaitMinutes(it.retryCount) ELSE 0]
       /\ ev' = IF it.retryCount > 0
                THEN Ev("retrying", it.link, it.retryCount + 1, 0)
                ELSE Ev("starting", it.link, 0, 0)
       /\ link' = UpdateSearchLinkStatus(link, it.link, "in_progress", "none")
    /\ pc' = [pc EXCEPT ![i] = "fetch"]
    /\ UNCHANGED <<pausedAllowed, reqStatus, reqSheet, reqListings, nlinks, dbListings,
                   sheets, reqSnapSheet, sheetName, seenListingURLs, consecutiveFailures,
                   linksSuccessful, linksFailed, totalKept, fetched, firstObs, appendFailed,
                   activeRequests, restart, attempt>>
    /\ UNCHANGED aux

\* processSearchLink up to the parsed pages: the fetch and the parse
FetchLink(i, f) ==
    /\ pc[i] = "fetch"
    /\ fetched' = [fetched EXCEPT ![i] = f]
    /\ pc' = [pc EXCEPT ![i] = "handle"]
    /\ UNCHANGED <<store, sheets, reqSnapSheet, sheetName, queue, item, seenListingURLs,
                   consecutiveFailures, linksSuccessful, linksFailed, totalKept,
                   waitMinutes, ev, firstObs, appendFailed, activeRequests, restart, attempt>>
    /\ UNCHANGED aux

\* variant: one more retry
ShouldRetryOnceMore(retryCount) == retryCount <= MaxRetry

\* whether a failed item goes back to the queue
ShouldRetry(retryCount) == retryCount < MaxRetry

\* variant: the pause comes one failure late
ShouldPauseLate(failures) == failures > PauseThreshold

\* whether the failures in a row pause the request
ShouldPause(failures) == failures >= PauseThreshold

\* variant: the failed item goes to the front
PushFront(q, it) == <<it>> \o q

\* queue = append(queue, queueItem{...})
PushBack(q, it) == Append(q, it)

\* processSearchLink returned an error (fetch failed, or no page collected)
LinkFailure(i) ==
    /\ pc[i] = "handle"
    /\ processSearchLinkErr(fetched[i]) # "none"
    /\ LET l == item[i].link
           e == processSearchLinkErr(fetched[i])
           failures == consecutiveFailures[i] + 1
       IN
       IF ShouldPause(failures)
       THEN \* pause: the link goes back to pending, the request to paused
            /\ link' = UpdateSearchLinkStatus(link, l, "pending", "none")
            /\ reqStatus' = UpdateRequestStatus(reqStatus, pausedAllowed, "paused")
            /\ ev' = Ev("paused", l, failures, 0)
            /\ Return(i)
       ELSE /\ consecutiveFailures' = [consecutiveFailures EXCEPT ![i] = failures]
            /\ IF ShouldRetry(item[i].retryCount)
               THEN LET incremented == IncrementSearchLinkRetry(link, l)
                    IN /\ link' = incremented
                       /\ queue' = [queue EXCEPT ![i] =
                              PushBack(@, [link |-> l, retryCount |-> incremented[l].retry])]
                       /\ ev' = Ev("will_retry", l, item[i].retryCount + 1, 0)
                       /\ UNCHANGED linksFailed
               ELSE /\ link' = UpdateSearchLinkStatus(link, l, "failed", e)
                    /\ linksFailed' = [linksFailed EXCEPT ![i] = @ + 1]
                    /\ ev' = Ev("perm_failed", l, 0, 0)
                    /\ UNCHANGED queue
            /\ pc' = [pc EXCEPT ![i] = "loop"]
            /\ fetched' = [fetched EXCEPT ![i] = NoFetch]
            /\ UNCHANGED <<reqStatus, reqSnapSheet, sheetName, item, seenListingURLs,
                           linksSuccessful, totalKept, waitMinutes, activeRequests, restart, attempt>>
    /\ UNCHANGED <<pausedAllowed, reqSheet, reqListings, nlinks, dbListings, sheets, firstObs, appendFailed>>
    /\ UNCHANGED aux

\* the filtered listings not yet in the dedup set
UniqueFiltered(sn, all, parsed) ==
    {u \in all : matchesFilters(DefaultFilters, parsed[u]) /\ sn[u] = 0}

\* the dedup set after the link l has recorded the URLs of S
Record(sn, S, l) == [u \in URLs |-> IF u \in S /\ sn[u] = 0 THEN l ELSE sn[u]]

\* the sheet sn with the rows of link l: its kept listings, then (other
\* URLs) its unfiltered ones
AppendListingsToSheet(sh, sn, l, kept, unfiltered) ==
    [sh EXCEPT ![sn] =
        [u \in URLs |->
           IF u \in kept THEN Append(@[u], [link |-> l, kept |-> TRUE])
           ELSE IF u \in unfiltered THEN Append(@[u], [link |-> l, kept |-> FALSE])
           ELSE @[u]]]

\* processSearchLink succeeded: at least one page was fetched; enrichedOK
\* are the kept listings whose detail enrichment succeeded. The failure
\* counter is set back and the link is marked done.
LinkSuccess(i, enrichedOK) ==
    /\ pc[i] = "handle"
    /\ successPc[i] = "none"
    /\ processSearchLinkErr(fetched[i]) = "none"
    /\ LET l == item[i].link
           parsed == fetched[i].parsed
           all == {u \in URLs : parsed[u] # Absent}
           unique == UniqueFiltered(seenListingURLs[i], all, parsed)
           seen1 == Record(seenListingURLs[i], unique, l)
           unfiltered == {u \in all \ unique : seen1[u] = 0}
           seen2 == Record(seen1, unfiltered, l)
       IN
       /\ enrichedOK \subseteq unique
       /\ seenListingURLs' = [seenListingURLs EXCEPT ![i] = seen2]
       /\ dbListings' = [u \in URLs |->
                           IF u \in unique THEN Append(dbListings[u], l) ELSE dbListings[u]]
       /\ linkListings' = [linkListings EXCEPT ![i] = enrichedOK]
       /\ linkUnfiltered' = [linkUnfiltered EXCEPT ![i] = unfiltered]
       /\ consecutiveFailures' = [consecutiveFailures EXCEPT ![i] = 0]
       /\ link' = UpdateSearchLinkStatus(link, l, "done", "none")
       /\ firstObs' = [u \in URLs |-> IF firstObs[u] = 0 /\ u \in all THEN l ELSE firstObs[u]]
    /\ successPc' = [successPc EXCEPT ![i] = "status_written"]
    /\ UNCHANGED <<pausedAllowed, reqStatus, reqSheet, reqListings, nlinks, sheets, pc,
                   reqSnapSheet, sheetName, queue, item, linksSuccessful, linksFailed,
                   totalKept, waitMinutes, fetched, ev, appendFailed, activeRequests, restart>>
    /\ UNCHANGED aux

\* the success branch goes on: the listings count of the link is stored
RecordCount(i) ==
    /\ successPc[i] = "status_written"
    /\ link' = UpdateSearchLinkListingsCount(link, item[i].link, Cardinality(linkListings[i]))
    /\ successPc' = [successPc EXCEPT ![i] = "count_written"]
    /\ UNCHANGED <<pausedAllowed, reqStatus, reqSheet, reqListings, nlinks, dbListings,
                   sheets, pc, reqSnapSheet, sheetName, queue, item, seenListingURLs,
                   consecutiveFailures, linksSuccessful, linksFailed, totalKept,
                   waitMinutes, fetched, ev, firstObs, appendFailed, activeRequests, restart,
                   linkListings, linkUnfiltered>>
    /\ UNCHANGED aux

\* the rest of the success branch: the run's totals, the link's rows
\* appended to the sheet (appended is whether the sheet took them), the
\* completion message
AppendRows(i, appended) ==
    /\ successPc[i] = "count_written"
    /\ LET l == item[i].link
           parsed == fetched[i].parsed
           all == {u \in URLs : parsed[u] # Absent}
       IN
       /\ linksSuccessful' = [linksSuccessful EXCEPT ![i] = @ + 1]
       /\ totalKept' = [totalKept EXCEPT ![i] = @ + Cardinality(linkListings[i])]
       /\ ~appended => (linkListings[i] \cup linkUnfiltered[i]) # {}
       /\ sheets' = IF appended
                    THEN AppendListingsToSheet(sheets, sheetName[i], l, linkListings[i],
                                               linkUnfiltered[i])
                    ELSE sheets
       /\ appendFailed' = (appendFailed \/ ~appended)
       /\ ev' = Ev("completed", l, Cardinality(all), Cardinality(linkListings[i]))
    /\ pc' = [pc EXCEPT ![i] = "loop"]
    /\ fetched' = [fetched EXCEPT ![i] = NoFetch]
    /\ successPc' = [successPc EXCEPT ![i] = "none"]
    /\ linkListings' = [linkListings EXCEPT ![i] = {}]
    /\ linkUnfiltered' = [linkUnfiltered EXCEPT ![i] = {}]
    /\ UNCHANGED <<store, reqSnapSheet, sheetName, queue, item, seenListingURLs,
                   consecutiveFailures, linksFailed, waitMinutes, firstObs, activeRequests, restart>>
    /\ UNCHANGED aux

\* variant: a run that kept no listing counts as failed
NoListingKept(kept, successful) == kept = 0

\* totalFilteredListings == 0 && linksSuccessful == 0
AllLinksFailed(kept, successful) == kept = 0 /\ successful = 0

\* the retry queue is empty: finalise the request
Finalize(i) ==
    /\ pc[i] = "loop"
    /\ queue[i] = <<>>
    /\ IF AllLinksFailed(totalKept[i], linksSuccessful[i])
       THEN /\ reqStatus' = UpdateRequestStatus(reqStatus, pausedAllowed, "failed")
            /\ ev' = Ev("request_failed:all_links", 0, 0, 0)
            /\ UNCHANGED reqListings
       ELSE /\ reqListings' = totalKept[i]
            /\ reqStatus' = UpdateRequestStatus(reqStatus, pausedAllowed, "done")
            /\ ev' = Ev("success", 0, linksSuccessful[i], linksFailed[i])
    /\ Return(i)
    /\ UNCHANGED <<pausedAllowed, reqSheet, nlinks, link, dbListings, sheets, firstObs, appendFailed>>
    /\ UNCHANGED aux

\* the resume control operation: a paused request becomes claimable again
Resume ==
    /\ reqStatus = "paused"
    /\ reqStatus' = "created"
    /\ UNCHANGED <<pausedAllowed, reqSheet, reqListings, nlinks, link, dbListings,
                   sheets, locals, ev, firstObs, appendFailed>>
    /\ UNCHANGED aux

\* what the parser may return for the pages of one link
ParseResults == [URLs -> ListingKinds \cup {Absent}]

\* one step of processNextRequest on instance i, the parser returning one of parses
Step(i, parses) ==
    \/ ClaimNext(i)
    \/ MarkInProgress(i)
    \/ StartRequest(i)
    \/ PopItem(i)
    \/ \E f \in {FetchError, ZeroPages} \cup {Pages(p) : p \in parses} : FetchLink(i, f)
    \/ LinkFailure(i)
    \/ \E ok \in SUBSET URLs : LinkSuccess(i, ok)
    \/ RecordCount(i)
    \/ \E ap \in BOOLEAN : AppendRows(i, ap)
    \/ Finalize(i)

\* one scheduler instance
Next ==
    \/ Step(1, ParseResults)
    \/ Resume

Spec == Init /\ [][Next]_vars

\* one scheduler instance under fair scheduling: the poll loop keeps
\* ticking and the user resumes the request every time it pauses, so a step
\* that can be taken is taken in the end; which attempts fail is left open
SpecFair == Spec /\ WF_vars(Next)

\* the process is killed while a request is being processed (by the
\* operator, or by the restart that a request ending shortly before has
\* scheduled) and the process manager starts it again: what the process
\* held in memory is gone, the store and the sheets stay as they are
Crash(i) ==
    /\ pc[i] # "idle"
    /\ activeRequests' = [activeRequests EXCEPT ![i] = 0]
    /\ restart' = [restart EXCEPT ![i] = NoRestart]
    /\ DropLocals(i)
    /\ UNCHANGED <<store, sheets, ev, firstObs, appendFailed>>
    /\ UNCHANGED aux

\* one scheduler instance that can be killed at any point
NextCrash ==
    \/ Next
    \/ Crash(1)

SpecCrash == Init /\ [][NextCrash]_vars

\* a restart goroutine wakes up after its 2 seconds and looks at the counter
\* again: still zero, it goes on to restart the process
RestartCheck(i) ==
    /\ restart[i].sleeping > 0
    /\ restart' = [restart EXCEPT ![i] =
                      [sleeping |-> @.sleeping - 1,
                       exiting |-> @.exiting \/ activeRequests[i] = 0]]
    /\ UNCHANGED <<store, sheets, pc, reqSnapSheet, sheetName, queue, item,
                   seenListingURLs, consecutiveFailures, linksSuccessful, linksFailed,
                   totalKept, waitMinutes, fetched, activeRequests, attempt, ev, firstObs,
                   appendFailed>>
    /\ UNCHANGED aux

\* requestRestart: after its 500 ms the process exits and the process
\* manager starts it again; what the process held in memory is gone
RestartExit(i) ==
    /\ restart[i].exiting
    /\ activeRequests' = [activeRequests EXCEPT ![i] = 0]
    /\ restart' = [restart EXCEPT ![i] = NoRestart]
    /\ DropLocals(i)
    /\ UNCHANGED <<store, sheets, ev, firstObs, appendFailed>>
    /\ UNCHANGED aux

\* the user submits the next request once the one before is finished
\* (CreateRequest inserts it as 'created')
NewRequest ==
    /\ reqStatus \in {"done", "failed"}
    /\ Len(sheets) < MaxSheets
    /\ reqStatus' = "created"
    /\ reqSheet' = 0
    /\ reqListings' = 0
    /\ link' = [l \in LinkNo |-> NewLink]
    /\ dbListings' = [u \in URLs |-> <<>>]
    /\ firstObs' = [u \in URLs |-> 0]
    /\ appendFailed' = FALSE
    /\ UNCHANGED <<pausedAllowed, nlinks, sheets, locals, ev>>
    /\ UNCHANGED aux

\* one scheduler instance with its restart goroutines, on a store that
\* gets new requests
NextRestart ==
    \/ Next
    \/ NewRequest
    \/ RestartCheck(1)
    \/ RestartExit(1)

SpecRestart == Init /\ [][NextRestart]_vars

\* the same instance under fair scheduling: the poll loop's ticker fires
\* every 5 seconds, so a step of the scheduler that can be taken is taken
\* in the end; nothing forces a crash or a resume
SpecCrashFair == SpecCrash /\ WF_vars(Step(1, ParseResults))

\* several scheduler instances polling the same store, on a site whose pages
\* hold no listing
NextMulti ==
    \/ \E i \in Inst : Step(i, {NoPages})
    \/ Resume

SpecMulti == Init /\ [][NextMulti]_vars

\* ------------------------------------------------------------- price ranges
MaxInt == 2^(IntBits - 1) - 1
MinInt == -(2^(IntBits - 1))
\* the value of an int expression: the sum wraps around
WrapInt(x) == ((x - MinInt) % 2^IntBits) + MinInt

\* variant: only a parameter that is not in the URL counts as missing
IsBlankIfAbsent(p) == p.k = "absent"

\* query.Get(key) == ""
IsBlank(p) == p.k \in {"absent", "empty"}
\* strconv.Atoi succeeded
IsInt(p) == p.k = "int"

\* labels: "all prices", or "$min-$max"
AllPrices == [all |-> TRUE, min |-> 0, max |-> 0]
RangeLabel(lo, hi) == [all |-> FALSE, min |-> lo, max |-> hi]

\* an entry of the selected-filter list: "price_min:n", "price_max:n", or
\* another filter
OrderEntry(k, n) == [k |-> k, n |-> n]
IsPriceEntry(en) == en.k \in {"price_min", "price_max"}

\* variant: the price entries are appended without removing the old ones
AppendPriceEntries(o, rangeMin, rangeMax) ==
    IF ~o.present THEN o
    ELSE [present |-> TRUE,
          list |-> o.list
                     \o <<OrderEntry("price_min", rangeMin), OrderEntry("price_max", rangeMax)>>]

\* the selected-filter list of a window: the price entries removed, the
\* window's two entries appended; a URL without the list gets none
ReplacePriceEntries(o, rangeMin, rangeMax) ==
    IF ~o.present THEN o
    ELSE [present |-> TRUE,
          list |-> SelectSeq(o.list, LAMBDA en : ~IsPriceEntry(en))
                     \o <<OrderEntry("price_min", rangeMin), OrderEntry("price_max", rangeMax)>>]

\* the URL of one window
WindowURL(u, rangeMin, rangeMax) ==
    [price_min |-> IntParam(rangeMin),
     price_max |-> IntParam(rangeMax),
     other |-> u.other,
     order |-> ReplacePriceEntries(u.order, rangeMin, rangeMax)]

PriceRangeURL(u, label, lo, hi) == [URL |-> u, Label |-> label, Min |-> lo, Max |-> hi]

\* variant: the last window is not clamped to the ceiling
ClampNever(rangeMax, priceMax) == rangeMax

\* if rangeMax > priceMax { rangeMax = priceMax }
Clamp(rangeMax, priceMax) == IF rangeMax > priceMax THEN priceMax ELSE rangeMax

\* rangeMin at the start of pass k (k = 0, 1, ...) of the loop: priceMin
\* plus k steps, each sum an int
RangeMinAt(priceMin, st, k) == WrapInt(priceMin + k * st)

\* the entry one pass of the loop appends, none for a window that is empty
RangePass(u, rangeMin, priceMax, st) ==
    LET rangeMax == Clamp(WrapInt(rangeMin + st), priceMax)
    IN IF rangeMax <= rangeMin THEN <<>>
       ELSE <<PriceRangeURL(WindowURL(u, rangeMin, rangeMax),
                            RangeLabel(rangeMin, rangeMax), rangeMin, rangeMax)>>

RECURSIVE Flatten(_, _, _)
\* ss[lo] \o ... \o ss[hi]
Flatten(ss, lo, hi) ==
    IF lo > hi THEN <<>>
    ELSE IF lo = hi THEN ss[lo]
    ELSE LET mid == (lo + hi) \div 2
         IN Flatten(ss, lo, mid) \o Flatten(ss, mid + 1, hi)

\* the loop over rangeMin: it ends at the first pass whose rangeMin is not
\* below priceMax; rangeMin takes at most 2^IntBits values, so a loop that
\* has not ended after that many passes never ends
RangeLoop(u, priceMin, priceMax, st) ==
    LET ends == {k \in 0..(2^IntBits) : ~(RangeMinAt(priceMin, st, k) < priceMax)}
    IN IF ends = {} THEN [diverges |-> TRUE, ranges |-> <<>>]
       ELSE LET passes == CHOOSE k \in ends : \A j \in ends : k <= j
            IN [diverges |-> FALSE,
                ranges |-> Flatten([k \in 1..passes |->
                              RangePass(u, RangeMinAt(priceMin, st, k - 1), priceMax, st)],
                                   1, passes)]

\* the result of GeneratePriceRangeURLs: the entries, or an error, or no
\* return at all
GeneratePriceRangeURLs(u, stepArg) ==
    LET st == IF stepArg <= 0 THEN DefaultStep ELSE stepArg
    IN IF IsBlank(u.price_max)
       THEN [err |-> "none", ranges |-> <<PriceRangeURL(u, AllPrices, 0, 0)>>]
       ELSE IF ~IsInt(u.price_max)
       THEN [err |-> "invalid_price_max", ranges |-> <<>>]
       ELSE LET priceMax == u.price_max.n
                priceMin == IF ~IsBlank(u.price_min) /\ IsInt(u.price_min)
                            THEN u.price_min.n ELSE 0
                single == <<PriceRangeURL(u, RangeLabel(priceMin, priceMax),
                                          priceMin, priceMax)>>
            IN IF priceMax <= priceMin
               THEN [err |-> "none", ranges |-> single]
               ELSE LET loop == RangeLoop(u, priceMin, priceMax, st)
                    IN IF loop.diverges THEN [err |-> "no_return", ranges |-> <<>>]
                       ELSE IF loop.ranges = <<>> THEN [err |-> "none", ranges |-> single]
                       ELSE [err |-> "none", ranges |-> loop.ranges]

\* CountRanges(priceMin, priceMax, step)
CountRanges(priceMin, priceMax, st) ==
    IF st <= 0 \/ priceMax <= priceMin THEN 1
    ELSE LET d == WrapInt(priceMax - priceMin)
         IN (d \div st) + (IF d % st # 0 THEN 1 ELSE 0)

\* n, _ = strconv.Atoi(s): the number, and 0 for a text that is not one
AtoiOrZero(p) == IF IsInt(p) THEN p.n ELSE 0

\* ExtractPriceRangeLabel(urlStr): "all prices" when both parameters are
\* missing or empty, else "$min-$max" with 0 for the one that is missing
ExtractPriceRangeLabel(u) ==
    IF IsBlank(u.price_min) /\ IsBlank(u.price_max) THEN AllPrices
    ELSE RangeLabel(IF IsBlank(u.price_min) THEN 0 ELSE AtoiOrZero(u.price_min),
                    IF IsBlank(u.price_max) THEN 0 ELSE AtoiOrZero(u.price_max))

\* the prices, the parameter values, the filter lists and the steps tried
PriceInts == {-30, 0, 50, 120, 200, MaxInt - 5, MaxInt}
ParamValues == {NoParam, EmptyParam, TextParam} \cup {IntParam(n) : n \in PriceInts}
OrderLists ==
    {NoOrder,
     [present |-> TRUE, list |-> <<OrderEntry("a", 0)>>],
     [present |-> TRUE,
      list |-> <<OrderEntry("price_min", 0), OrderEntry("a", 0),
                 OrderEntry("price_max", 200), OrderEntry("b", 0)>>],
     [present |-> TRUE,
      list |-> <<OrderEntry("b", 0), OrderEntry("price_max", 120),
                 OrderEntry("price_max", 200), OrderEntry("a", 0)>>]}
Steps == {0, 7, DefaultStep, 80}

\* a GeneratePriceRangeURLs call on a URL and a step
InitShard ==
    /\ InitRequest
    /\ pausedAllowed = FALSE
    /\ nlinks = NumLinks
    /\ EnrichOff
    /\ FilterOff
    /\ shardPc = "call"
    /\ urlStr \in [price_min : ParamValues, price_max : ParamValues,
                   other : {NoParam, TextParam}, order : OrderLists]
    /\ step \in Steps
    /\ ranges = [err |-> "none", ranges |-> <<>>]

\* the call returns, or fails, or never returns
Shard ==
    /\ shardPc = "call"
    /\ ranges' = GeneratePriceRangeURLs(urlStr, step)
    /\ shardPc' = (IF ranges'.err = "no_return" THEN "stuck" ELSE "returned")
    /\ UNCHANGED <<main, enrichVars, filterVars, urlStr, step>>

NextShard == Shard

SpecShard == InitShard /\ [][NextShard]_vars

\* ------------------------------------------------------------------- filter
\* the configurations tried: the default one and one with a lower price bound
RaisedMinPrice == [DefaultFilters EXCEPT !.MinPrice = 100]
FilterConfigs == {DefaultFilters, RaisedMinPrice}
\* the listings tried: review counts and prices at and around the bounds,
\* price 0 for a price that was not extracted
FilterListings ==
    [reviews : {MinReviews - 1, MinReviews, MinReviews + 1},
     price : {0, 1, 99, 100, MaxPrice, MaxPrice + 1}]

\* an ApplyFilters call on a list of parsed listings
InitFilter ==
    /\ InitRequest
    /\ pausedAllowed = FALSE
    /\ nlinks = NumLinks
    /\ EnrichOff
    /\ ShardOff
    /\ filterPc = "call"
    /\ filterCfg \in FilterConfigs
    /\ filterInput \in UNION {[1..n -> FilterListings] : n \in 0..MaxParsed}
    /\ filtered = <<>>

FilterCall ==
    /\ filterPc = "call"
    /\ filtered' = ApplyFilters(filterCfg, filterInput)
    /\ filterPc' = "returned"
    /\ UNCHANGED <<main, enrichVars, shardVars, filterCfg, filterInput>>

NextFilter == FilterCall

SpecFilter == InitFilter /\ [][NextFilter]_vars

\* ------------------------------------------------------------ enrichListings
\* a listing of the result: its URL ("" is 0) and whether the detail fields
\* were merged into it
EmptyListing == [url |-> 0, enriched |-> FALSE]

\* the lists of kept listings: every URL at most once (the dedup set)
ListingLists ==
    {l \in UNION {[1..n -> EnrichURLs] : n \in 0..MaxListings} :
        \A a, b \in DOMAIN l : a # b => l[a] # l[b]}

\* an enrichListings call on a list of kept listings, some of which have no
\* persisted id
InitEnrich ==
    /\ InitRequest
    /\ pausedAllowed = FALSE
    /\ nlinks = NumLinks
    /\ enrichPc = "start"
    /\ listings \in ListingLists
    /\ urlToIDMap \in SUBSET {listings[k] : k \in DOMAIN listings}
    /\ listingStatus = [u \in EnrichURLs |-> IF u \in urlToIDMap THEN "pending" ELSE "none"]
    /\ sent = 0
    /\ jobs = <<>>
    /\ jobsClosed = FALSE
    /\ worker = [w \in Workers |-> [state |-> "unused", index |-> 0]]
    /\ results = <<>>
    /\ resultsClosed = FALSE
    /\ sendOnClosed = FALSE
    /\ produced = [k \in 1..MaxListings |-> 0]
    /\ tickPending = FALSE
    /\ ticksConsumed = 0
    /\ admitted = 0
    /\ enrichedListings = <<>>
    /\ processedCount = 0
    /\ finalListings = <<>>
    /\ ShardOff
    /\ FilterOff

filteredCount == Len(listings)

\* variant: one worker per listing
numWorkersPerListing == filteredCount

\* numWorkers: 2, or fewer when there are fewer listings
numWorkers == IF filteredCount < NumWorkers THEN filteredCount ELSE NumWorkers

\* variant: only a success is reported
SendResultIfSuccess(r) ==
    /\ Len(results) < filteredCount
    /\ results' = IF r.success THEN Append(results, r) ELSE results
    /\ sendOnClosed' = (sendOnClosed \/ (r.success /\ resultsClosed))
    /\ produced' = IF r.success THEN [produced EXCEPT ![r.index] = @ + 1] ELSE produced

\* results <- r; the channel holds filteredCount values
SendResult(r) ==
    /\ Len(results) < filteredCount
    /\ results' = Append(results, r)
    /\ sendOnClosed' = (sendOnClosed \/ resultsClosed)
    /\ produced' = [produced EXCEPT ![r.index] = @ + 1]

\* the call starts: nothing to do for an empty list, else the channels, the
\* workers, the ticker and the result array are set up
EnrichBegin ==
    /\ enrichPc = "start"
    /\ IF filteredCount = 0
       THEN /\ enrichPc' = "returned"
            /\ UNCHANGED <<worker, enrichedListings>>
       ELSE /\ enrichPc' = "running"
            /\ worker' = [w \in Workers |->
                            IF w <= numWorkers THEN [state |-> "wait", index |-> 0]
                            ELSE worker[w]]
            /\ enrichedListings' = [k \in 1..filteredCount |-> EmptyListing]
    /\ UNCHANGED <<main, shardVars, filterVars, listings, urlToIDMap, listingStatus, sent, jobs, jobsClosed,
                   results, resultsClosed, sendOnClosed, produced, tickPending, ticksConsumed,
                   admitted, processedCount, finalListings>>

\* the pacing ticker fires; a tick nobody took yet is not doubled
Tick ==
    /\ enrichPc = "running"
    /\ ~tickPending
    /\ tickPending' = TRUE
    /\ UNCHANGED <<main, shardVars, filterVars, enrichPc, listings, urlToIDMap, listingStatus, sent, jobs,
                   jobsClosed, worker, results, resultsClosed, sendOnClosed, produced,
                   ticksConsumed, admitted, enrichedListings, processedCount,
                   finalListings>>

\* variant: no job waits for the ticker
WaitsForTickNever(i) == FALSE

\* if i > 0 { <-rateLimiter.C }, i counted from 1 here
WaitsForTick(i) == i > 1

\* the job sender handles the next listing: a failure result when it has no
\* id, else one tick is taken (not for the first listing) and the job is sent
SendJob ==
    /\ enrichPc = "running"
    /\ sent < filteredCount
    /\ LET i == sent + 1
       IN IF listings[i] \notin urlToIDMap
          THEN /\ SendResult([index |-> i, listing |-> [url |-> listings[i], enriched |-> FALSE],
                              success |-> FALSE])
               /\ UNCHANGED <<jobs, tickPending, ticksConsumed, admitted>>
          ELSE /\ WaitsForTick(i) => tickPending
               /\ tickPending' = (IF WaitsForTick(i) THEN FALSE ELSE tickPending)
               /\ ticksConsumed' = (IF WaitsForTick(i) THEN ticksConsumed + 1
                                   ELSE ticksConsumed)
               /\ Len(jobs) < filteredCount
               /\ jobs' = Append(jobs, i)
               /\ admitted' = admitted + 1
               /\ UNCHANGED <<results, sendOnClosed, produced>>
    /\ sent' = sent + 1
    /\ UNCHANGED <<main, shardVars, filterVars, enrichPc, listings, urlToIDMap, listingStatus, jobsClosed,
                   worker, resultsClosed, enrichedListings, processedCount,
                   finalListings>>

\* the job sender is through: close(jobs)
CloseJobs ==
    /\ enrichPc = "running"
    /\ sent = filteredCount
    /\ ~jobsClosed
    /\ jobsClosed' = TRUE
    /\ UNCHANGED <<main, shardVars, filterVars, enrichPc, listings, urlToIDMap, listingStatus, sent, jobs,
                   worker, results, resultsClosed, sendOnClosed, produced, tickPending,
                   ticksConsumed, admitted, enrichedListings, processedCount,
                   finalListings>>

\* a waiting worker receives a job and starts the detail fetch
WorkerTake(w) ==
    /\ worker[w].state = "wait"
    /\ jobs # <<>>
    /\ worker' = [worker EXCEPT ![w] = [state |-> "fetching", index |-> Head(jobs)]]
    /\ jobs' = Tail(jobs)
    /\ UNCHANGED <<main, shardVars, filterVars, enrichPc, listings, urlToIDMap, listingStatus, sent, jobsClosed,
                   results, resultsClosed, sendOnClosed, produced, tickPending, ticksConsumed,
                   admitted, enrichedListings, processedCount, finalListings>>

DetailOutcomes == {"ok", "fetch_failed", "parse_failed"}

\* the worker's job ends: the detail page was fetched, parsed and merged, or
\* the fetch failed (the row is marked failed), or the parse failed
WorkerDone(w, outcome) ==
    /\ worker[w].state = "fetching"
    /\ LET i == worker[w].index
           u == listings[i]
       IN /\ SendResult([index |-> i, listing |-> [url |-> u, enriched |-> outcome = "ok"],
                         success |-> outcome = "ok"])
          /\ listingStatus' = [listingStatus EXCEPT ![u] =
                                 IF outcome = "ok" THEN "saved"
                                 ELSE IF outcome = "fetch_failed" THEN "failed"
                                 ELSE @]
    /\ worker' = [worker EXCEPT ![w] = [state |-> "wait", index |-> 0]]
    /\ UNCHANGED <<main, shardVars, filterVars, enrichPc, listings, urlToIDMap, sent, jobs, jobsClosed,
                   resultsClosed, tickPending, ticksConsumed, admitted,
                   enrichedListings, processedCount, finalListings>>

\* variant: a worker that finds no job gives up
WorkerExitEarly(w) ==
    /\ worker[w].state = "wait"
    /\ jobs = <<>>
    /\ worker' = [worker EXCEPT ![w] = [state |-> "exited", index |-> 0]]
    /\ UNCHANGED <<main, shardVars, filterVars, enrichPc, listings, urlToIDMap, listingStatus,
                   sent, jobs, jobsClosed, results, resultsClosed, sendOnClosed, produced,
                   tickPending, ticksConsumed, admitted, enrichedListings, processedCount,
                   finalListings>>

\* the jobs channel is closed and drained: the worker's range loop ends
WorkerExit(w) ==
    /\ worker[w].state = "wait"
    /\ jobs = <<>>
    /\ jobsClosed
    /\ worker' = [worker EXCEPT ![w] = [state |-> "exited", index |-> 0]]
    /\ UNCHANGED <<main, shardVars, filterVars, enrichPc, listings, urlToIDMap, listingStatus, sent, jobs,
                   jobsClosed, results, resultsClosed, sendOnClosed, produced, tickPending,
                   ticksConsumed, admitted, enrichedListings, processedCount,
                   finalListings>>

\* wg.Wait() returned: close(results)
CloseResults ==
    /\ enrichPc = "running"
    /\ ~resultsClosed
    /\ \A w \in Workers : worker[w].state \in {"unused", "exited"}
    /\ resultsClosed' = TRUE
    /\ UNCHANGED <<main, shardVars, filterVars, enrichPc, listings, urlToIDMap, listingStatus, sent, jobs,
                   jobsClosed, worker, results, sendOnClosed, produced, tickPending,
                   ticksConsumed, admitted, enrichedListings, processedCount,
                   finalListings>>

\* variant: results are stored in the order they arrive
PlaceByArrival(arr, r, count) == [arr EXCEPT ![count] = r.listing]

\* enrichedListings[result.index] = result.listing
Place(arr, r, count) == [arr EXCEPT ![r.index] = r.listing]

\* the collector receives one result
Collect ==
    /\ enrichPc = "running"
    /\ results # <<>>
    /\ LET r == Head(results)
       IN /\ processedCount' = processedCount + 1
          /\ enrichedListings' = IF r.success
                                 THEN Place(enrichedListings, r, processedCount + 1)
                                 ELSE enrichedListings
    /\ results' = Tail(results)
    /\ UNCHANGED <<main, shardVars, filterVars, enrichPc, listings, urlToIDMap, listingStatus, sent, jobs,
                   jobsClosed, worker, resultsClosed, sendOnClosed, produced, tickPending,
                   ticksConsumed, admitted, finalListings>>

\* the listings of arr whose URL is not empty, in the order of arr
NonEmptyListings(arr) == SelectSeq(arr, LAMBDA l : l.url # 0)

\* the results channel is closed and drained: the non-empty entries are returned
EnrichReturn ==
    /\ enrichPc = "running"
    /\ results = <<>>
    /\ resultsClosed
    /\ finalListings' = NonEmptyListings(enrichedListings)
    /\ enrichPc' = "returned"
    /\ UNCHANGED <<main, shardVars, filterVars, listings, urlToIDMap, listingStatus, sent, jobs, jobsClosed,
                   worker, results, resultsClosed, sendOnClosed, produced, tickPending,
                   ticksConsumed, admitted, enrichedListings, processedCount>>

NextEnrich ==
    \/ EnrichBegin
    \/ Tick
    \/ SendJob
    \/ CloseJobs
    \/ \E w \in Workers : WorkerTake(w)
    \/ \E w \in Workers : \E o \in DetailOutcomes : WorkerDone(w, o)
    \/ \E w \in Workers : WorkerExit(w)
    \/ CloseResults
    \/ Collect
    \/ EnrichReturn

SpecEnrich == InitEnrich /\ [][NextEnrich]_vars

\* the call under fair scheduling: a goroutine that can take a step takes
\* it in the end, and the ticker keeps firing
SpecEnrichFair == SpecEnrich /\ WF_vars(NextEnrich)

\* ------------------------------------------------------------------ claims
Running(i) == pc[i] \in {"loop", "fetch", "handle"}
\* instance i ends the attempt of its current item in this step
AttemptEnds(i) == pc[i] = "handle" /\ pc'[i] # "handle"
AttemptFailed(i) == processSearchLinkErr(fetched[i]) # "none"
\* the request has been paused and resumed at least once and runs again
Resumed(i) == Running(i) /\ reqSnapSheet[i] # 0
\* the links that have u among their kept rows in some sheet
KeptBy(u) ==
    {l \in LinkNo : \E k \in 1..Len(sheets) : \E n \in 1..Len(sheets[k][u]) :
                       sheets[k][u][n].link = l /\ sheets[k][u][n].kept}

\* C1: with several scheduler instances on the same store, no two of them
\* are processing the request at the same time (each request is owned by at
\* most one processNextRequest call).
C1_SingleOwner ==
    \A i, j \in Inst : i # j => ~(Running(i) /\ Running(j))

\* C2: within one run, an attempt's end pauses the request exactly when it
\* is a failure and the failure before it was the previous attempt (the
\* counter goes from 1 to 2); one failure never pauses, and a success sets
\* the counter back to 0.
C2_CircuitBreaker ==
    [][\A i \in Inst : AttemptEnds(i) =>
          /\ consecutiveFailures[i] \in {0, 1}
          /\ (ev'.type = "paused" /\ pc'[i] = "idle")
                <=> (AttemptFailed(i) /\ consecutiveFailures[i] = 1)
          /\ ~AttemptFailed(i) => (consecutiveFailures'[i] = 0 /\ pc'[i] = "loop")
          /\ (AttemptFailed(i) /\ consecutiveFailures[i] = 0)
                => (consecutiveFailures'[i] = 1 /\ pc'[i] = "loop")]_vars

\* a pause after an earlier link of the run succeeded
C2_Witness ==
    /\ ev.type = "paused" /\ ev.a = 2
    /\ \E l \in LinkNo : link[l].status = "done"

\* C3: with one scheduler instance, the stored retry-count of every link is
\* at most 3 in every state and no step lowers it, pause and resume included.
C3_RetryBounded ==
    /\ [](\A l \in LinkNo : link[l].retry <= 3)
    /\ [][\A l \in LinkNo : link'[l].retry >= link[l].retry]_vars

\* a link whose retry-count reached the cap, in a run after a resume
C3_Witness ==
    \E i \in Inst : Resumed(i) /\ \E l \in LinkNo : link[l].retry = 3

\* C4: a failure that does not pause increments the stored retry-count; the
\* link goes back to the queue only if the new count is below 3, and with a
\* new count of 3 it is marked failed with its error and not queued again.
C4_RetryOrFail ==
    [][\A i \in Inst :
          (AttemptEnds(i) /\ AttemptFailed(i) /\ pc'[i] = "loop") =>
             LET l == item[i].link
                 requeued == Len(queue'[i]) > Len(queue[i])
             IN /\ link'[l].retry = link[l].retry + 1
                /\ requeued <=> link'[l].retry < 3
                /\ link'[l].retry = 3 =>
                      (link'[l].status = "failed" /\ link'[l].err # "none")]_vars

\* C5: a link marked failed is in no retry queue and is not attempted again.
C5_FailedNeverQueued ==
    /\ [](\A i \in Inst : \A k \in 1..Len(queue[i]) :
             link[queue[i][k].link].status # "failed")
    /\ [][\A l \in LinkNo : link[l].status = "failed" => link'[l].status = "failed"]_vars

\* C6: the wait before an attempt is 0 for an item with retryCount 0, and
\* 3, 4, 5 minutes for retryCount 1, 2, 3.
C6_Backoff ==
    \A i \in Inst : pc[i] \in {"fetch", "handle"} =>
       /\ item[i].retryCount = 0 => waitMinutes[i] = 0
       /\ item[i].retryCount = 1 => waitMinutes[i] = 3
       /\ item[i].retryCount = 2 => waitMinutes[i] = 4
       /\ item[i].retryCount >= 3 => waitMinutes[i] = 5

\* the third retry is about to be fetched
C6_Witness ==
    \E i \in Inst : pc[i] = "fetch" /\ item[i].retryCount = 3 /\ waitMinutes[i] = 5

\* C7: an attempt that fetched a page and parsed no listing ends with the
\* link done, its listings-count 0, its retry-count and error untouched and
\* the consecutive-failure counter 0.
C7_ZeroListings ==
    [][\A i \in Inst :
          (AttemptEnds(i) /\ fetched[i].pages >= 1 /\ ~fetched[i].err
             /\ fetched[i].parsed = NoPages) =>
             LET l == item[i].link
             IN /\ link'[l].status = "done"
                /\ link'[l].count = 0
                /\ link'[l].retry = link[l].retry
                /\ link'[l].err = "none"
                /\ consecutiveFailures'[i] = 0
                /\ pc'[i] = "loop"]_vars

\* a link completed with no listing found
C7_Witness ==
    /\ ev.type = "completed" /\ ev.a = 0
    /\ link[ev.link].status = "done" /\ link[ev.link].count = 0

\* no URL is among the kept rows of two links
C8_KeptOnce == \A u \in URLs : Cardinality(KeptBy(u)) <= 1

\* C8: no URL is kept by more than one link, and the link the dedup set
\* records for a URL is the first link that observed it, over all runs.
C8_DedupFirstOwner ==
    /\ C8_KeptOnce
    /\ \A i \in Inst : \A u \in URLs :
          seenListingURLs[i][u] # 0 => seenListingURLs[i][u] = firstObs[u]

C10_DoneStaysDone ==
    /\ [](\A i \in Inst :
            /\ \A k \in 1..Len(queue[i]) : link[queue[i][k].link].status # "done"
            /\ (pc[i] \in {"fetch", "handle"} /\ successPc[i] = "none")
                  => link[item[i].link].status = "in_progress")
    /\ [][\A l \in LinkNo : link[l].status = "done" => link'[l].status = "done"]_vars

\* a resumed run with a done link and work left in the queue
C10_Witness ==
    \E i \in Inst : /\ Resumed(i) /\ queue[i] # <<>>
                    /\ \E l \in LinkNo : link[l].status = "done"

\* the links on whose behalf u has a row (kept or unfiltered) in some sheet
EmittedBy(u) ==
    {l \in LinkNo : \E k \in 1..Len(sheets) : \E n \in 1..Len(sheets[k][u]) :
                       sheets[k][u][n].link = l}

\* C11: in a run after a resume, the end of an attempt adds no row to the
\* sink for a URL that already has a row there on behalf of a done link.
C11_NoReEmit ==
    [][\A i \in Inst : (Resumed(i) /\ AttemptEnds(i)) =>
          \A u \in URLs :
             (\E l \in EmittedBy(u) : link[l].status = "done") =>
                \A k \in 1..Len(sheets) : sheets'[k][u] = sheets[k][u]]_vars

\* the index of the listing with URL u in the input
InputIndex(u) == CHOOSE k \in DOMAIN listings : listings[k] = u

\* C12: whatever the order in which the workers complete, every result is
\* stored at the index of its input, and the listings returned are in the
\* same relative order as in the input.
C12_OrderPreserved ==
    /\ \A k \in DOMAIN enrichedListings : enrichedListings[k].url \in {0, listings[k]}
    /\ enrichPc = "returned" =>
          \A a, b \in DOMAIN finalListings :
             a < b => InputIndex(finalListings[a].url) < InputIndex(finalListings[b].url)

\* the second listing's result was collected before the first one's arrived
C12_Witness ==
    /\ Len(enrichedListings) >= 2
    /\ enrichedListings[2].url # 0
    /\ results # <<>> /\ Head(results).index = 1 /\ Head(results).success

\* C13: the call returns exactly the listings it was given, the ones whose
\* enrichment failed included, each at its input index.
C13_AllReturned ==
    enrichPc = "returned" =>
       /\ Len(finalListings) = Len(listings)
       /\ \A k \in DOMAIN listings : finalListings[k].url = listings[k]

\* the call on a URL with a numeric price_max, a numeric or missing price_min
\* below it and a positive step has ended
ShardedCall ==
    /\ shardPc \in {"returned", "stuck"}
    /\ IsInt(urlStr.price_max)
    /\ IsInt(urlStr.price_min) \/ urlStr.price_min = NoParam
    /\ urlStr.price_min.n < urlStr.price_max.n
    /\ step > 0

\* the windows of the result are the ceil((hi-lo)/step) consecutive windows
\* from lo to hi, with their labels and URL parameters
ExactWindows ==
    LET lo == urlStr.price_min.n
        hi == urlStr.price_max.n
        r == ranges.ranges
        n == ((hi - lo) + (step - 1)) \div step
    IN /\ ranges.err = "none"
       /\ Len(r) = n
       /\ CountRanges(lo, hi, step) = n
       /\ r[1].Min = lo
       /\ r[n].Max = hi
       /\ \A k \in 1..n :
             /\ k > 1 => r[k].Min = r[k - 1].Max
             /\ k < n => r[k].Max = r[k].Min + step
             /\ r[k].Min < r[k].Max
             /\ r[k].Label = RangeLabel(r[k].Min, r[k].Max)
             /\ r[k].URL.price_min = IntParam(r[k].Min)
             /\ r[k].URL.price_max = IntParam(r[k].Max)

\* C14: for lo < hi and a step > 0 the sharder returns ceil((hi-lo)/step)
\* entries whose windows are consecutive from lo to hi, of width step except
\* the last, which ends at hi.
C14_Windows == ShardedCall => ExactWindows

\* the same, for the calls in which no sum leaves the range of an int
C14_WindowsWithoutOverflow ==
    (ShardedCall /\ urlStr.price_max.n + step <= MaxInt
                 /\ urlStr.price_max.n - urlStr.price_min.n <= MaxInt) => ExactWindows

\* the lower bound the sharder computes: price_min if it is a number, else 0
LowerBound == IF IsInt(urlStr.price_min) THEN urlStr.price_min.n ELSE 0

\* C15: a URL without a price_max comes back as the one entry, unchanged,
\* labelled "all prices"; a URL whose lower bound is not below its price_max
\* comes back as the one entry, unchanged.
C15_Degenerate ==
    shardPc \in {"returned", "stuck"} =>
       /\ urlStr.price_max \in {NoParam, EmptyParam} =>
             /\ ranges.err = "none"
             /\ Len(ranges.ranges) = 1
             /\ ranges.ranges[1].URL = urlStr
             /\ ranges.ranges[1].Label = AllPrices
       /\ (IsInt(urlStr.price_max) /\ ~(LowerBound < urlStr.price_max.n)) =>
             /\ ranges.err = "none"
             /\ Len(ranges.ranges) = 1
             /\ ranges.ranges[1].URL = urlStr

\* a returned call on a URL whose price_min is above its price_max
C15_Witness ==
    /\ shardPc = "returned"
    /\ IsInt(urlStr.price_max) /\ IsInt(urlStr.price_min)
    /\ urlStr.price_min.n > urlStr.price_max.n
    /\ urlStr.order.present
    /\ Len(ranges.ranges) = 1

\* the entries of a selected-filter list that are not price entries, in order
NonPriceEntries(list) == SelectSeq(list, LAMBDA en : ~IsPriceEntry(en))
\* how many entries of the list are the entry en
CountEntry(list, en) == Cardinality({k \in DOMAIN list : list[k] = en})
\* how many entries of the list have the key key
CountKey(list, key) == Cardinality({k \in DOMAIN list : list[k].k = key})

\* C16: every URL the sharder returns has the other query parameter as in
\* the input; every URL of a window has the selected-filter list of the
\* input without its price entries, in the same order, plus exactly one
\* price_min and one price_max entry, those of the window.
C16_OtherParamsKept ==
    shardPc = "returned" =>
       \A k \in DOMAIN ranges.ranges :
          LET r == ranges.ranges[k]
          IN /\ r.URL.other = urlStr.other
             /\ r.URL.order.present = urlStr.order.present
             /\ (IsInt(urlStr.price_max) /\ LowerBound < urlStr.price_max.n
                   /\ urlStr.order.present) =>
                   /\ NonPriceEntries(r.URL.order.list) = NonPriceEntries(urlStr.order.list)
                   /\ CountKey(r.URL.order.list, "price_min") = 1
                   /\ CountKey(r.URL.order.list, "price_max") = 1
                   /\ CountEntry(r.URL.order.list, OrderEntry("price_min", r.Min)) = 1
                   /\ CountEntry(r.URL.order.list, OrderEntry("price_max", r.Max)) = 1

\* several windows returned for a URL that has another parameter and a
\* selected-filter list with price entries among the others
C16_Witness ==
    /\ shardPc = "returned"
    /\ Len(ranges.ranges) >= 2
    /\ urlStr.other = TextParam
    /\ CountKey(urlStr.order.list, "price_max") = 2
    /\ Len(NonPriceEntries(urlStr.order.list)) = 2

\* C17: with one scheduler instance the stored status of the Request only
\* goes from created to in_progress and from in_progress to done, failed or
\* paused; a paused Request becomes claimable again only by the resume
\* operation; done and failed are final, and no scheduler step writes created.
C17_StatusTransitions ==
    [][reqStatus' # reqStatus =>
          \/ reqStatus = "created" /\ reqStatus' = "in_progress"
          \/ reqStatus = "in_progress" /\ reqStatus' \in {"done", "failed", "paused"}
          \/ reqStatus = "paused" /\ Resume]_vars

\* the Request is in_progress for the second time, after a pause and a resume
C17_Witness ==
    \E i \in Inst : Resumed(i) /\ reqStatus = "in_progress" /\ pc[i] = "fetch"

\* the retry queue of instance i has drained and the run ends in this step
QueueDrained(i) == pc[i] = "loop" /\ queue[i] = <<>> /\ pc'[i] = "idle"

\* C18: when the retry queue drains and some link of the Request is done,
\* the Request becomes done and its listings-count is stored; it does not
\* become failed.
C18_DoneIfAnyLinkDone ==
    [][\A i \in Inst :
          (QueueDrained(i) /\ \E l \in 1..nlinks : link[l].status = "done") =>
             /\ reqStatus' = "done"
             /\ reqListings' = totalKept[i]
             /\ ev'.type = "success"]_vars

\* a Request finalised as done with one link done without any listing and
\* another link failed
C18_Witness ==
    /\ reqStatus = "done" /\ ev.type = "success" /\ ev.b >= 1
    /\ reqListings = 0

\* C19: the Request becomes failed only when every one of its links is
\* failed and none is done, or when the sheet could not be created.
C19_FailedOnlyIfExhausted ==
    [][(reqStatus' = "failed" /\ reqStatus # "failed") =>
          \/ \A l \in 1..nlinks : link[l].status = "failed"
          \/ ev'.type = "request_failed:sheet"]_vars

\* link failures alone do not fail the Request while a link is done or can
\* still be retried
C19_LinkFailuresAlone ==
    [][(reqStatus' = "failed" /\ reqStatus # "failed"
          /\ ev'.type = "request_failed:all_links") =>
          \A l \in 1..nlinks : link[l].status = "failed"]_vars

\* C20: the failure that brings the consecutive-failure counter to 2 sets
\* the failing link to pending and the Request to paused, sends the pause
\* notification and ends the run in the same step; the links left in the
\* queue are not touched.
C20_PauseStep ==
    [][\A i \in Inst :
          (AttemptEnds(i) /\ AttemptFailed(i) /\ consecutiveFailures[i] = 1) =>
             /\ link'[item[i].link].status = "pending"
             /\ reqStatus' = "paused"
             /\ ev'.type = "paused"
             /\ pc'[i] = "idle"
             /\ \A l \in LinkNo : l # item[i].link => link'[l] = link[l]]_vars

\* the same, without the stored status of the Request
C20_PauseStepButStatus ==
    [][\A i \in Inst :
          (AttemptEnds(i) /\ AttemptFailed(i) /\ consecutiveFailures[i] = 1) =>
             /\ link'[item[i].link].status = "pending"
             /\ pausedAllowed => reqStatus' = "paused"
             /\ ev'.type = "paused"
             /\ pc'[i] = "idle"
             /\ \A l \in LinkNo : l # item[i].link => link'[l] = link[l]]_vars

\* a failed creation of the sheet sets the Request to failed
C21_SheetCreationFails ==
    [][(ev'.type = "request_failed:sheet" /\ ev.type # "request_failed:sheet") =>
          reqStatus' = "failed"]_vars

\* C21: a Request whose sheet could not be created ends failed, and a
\* Request that had an append of a link's rows fail does not end done.
C21_SinkFailureFailsRequest ==
    /\ [](appendFailed => reqStatus # "done")
    /\ C21_SheetCreationFails

\* the claim's rule: enough reviews and, when the price was extracted, a
\* price within the bounds
Kept(cfg, l) ==
    /\ l.reviews >= cfg.MinReviews
    /\ l.price > 0 => (cfg.MinPrice <= l.price /\ l.price <= cfg.MaxPrice)

\* C22: ApplyFilters returns, in input order, exactly the listings with
\* enough reviews whose price, if extracted, is within [min, max]; a
\* listing with price 0 is never dropped for its price.
C22_FilterRule ==
    filterPc = "returned" =>
       /\ filtered = SelectSeq(filterInput, LAMBDA l : Kept(filterCfg, l))
       /\ \A k \in DOMAIN filterInput :
             (filterInput[k].price = 0 /\ filterInput[k].reviews >= filterCfg.MinReviews)
                => \E j \in DOMAIN filtered : filtered[j] = filterInput[k]

\* a call that kept a listing without a price and dropped one below the
\* lower price bound
C22_Witness ==
    /\ filterPc = "returned"
    /\ filterCfg = RaisedMinPrice
    /\ Len(filterInput) = 2 /\ Len(filtered) = 1
    /\ filterInput[1].price = 99 /\ filterInput[2].price = 0
    /\ filtered[1] = filterInput[2]

\* the links of the request that the store holds as in_progress
LinksInProgress == {l \in LinkNo : link[l].status = "in_progress"}

\* C23: the active-request counter of the instance is 0 or 1, the store
\* never holds two links of the request as in_progress, and a link is
\* marked in_progress only by the loop head, when the attempt before it
\* has been handled to its end and no other link is in_progress.
C23_OneAtATime ==
    /\ [](/\ activeRequests[1] \in {0, 1}
          /\ Cardinality(LinksInProgress) <= 1)
    /\ [][\A l \in LinkNo :
             (link'[l].status = "in_progress" /\ link[l].status # "in_progress") =>
                /\ pc[1] = "loop"
                /\ fetched[1] = NoFetch
                /\ LinksInProgress = {}]_vars

\* the second link is started after the first one failed and went back to
\* the queue
C23_Witness ==
    /\ activeRequests[1] = 1
    /\ LinksInProgress = {2}
    /\ link[1].retry = 1
    /\ pc[1] = "fetch"

\* no action but the ticker's can be taken although a tick is there to take
EnrichStuck == enrichPc = "running" /\ tickPending /\ ~ENABLED NextEnrich

\* C24: every input listing produces exactly one result, never two, and the
\* call is never stuck; when it returns all results have been collected, and
\* every listing whose detail page was fetched and parsed is among the
\* listings returned, whatever happened to the other listings.
C24_OneResultEach ==
    /\ \A k \in 1..MaxListings : produced[k] <= 1
    /\ ~EnrichStuck
    /\ enrichPc = "returned" =>
          /\ \A k \in DOMAIN listings : produced[k] = 1
          /\ processedCount = filteredCount
          /\ \A k \in DOMAIN listings :
                listingStatus[listings[k]] = "saved" =>
                   \E j \in DOMAIN finalListings :
                      finalListings[j] = [url |-> listings[k], enriched |-> TRUE]

\* the first listing had no id, the second one's fetch failed, the third
\* one was enriched and returned
C24_Witness ==
    /\ enrichPc = "returned"
    /\ Len(listings) = 3
    /\ listings[1] \notin urlToIDMap
    /\ listingStatus[listings[2]] = "failed"
    /\ finalListings = <<[url |-> listings[3], enriched |-> TRUE]>>

\* the detail fetches in flight: the workers that took a job and have not
\* reported its result yet
InFlight == {w \in Workers : worker[w].state = "fetching"}

\* C25: at most min(2, N) detail fetches are in flight at any instant of an
\* enrichment of N listings.
C25_BoundedInFlight ==
    Cardinality(InFlight) <= (IF Len(listings) < 2 THEN Len(listings) ELSE 2)

\* two fetches in flight while a third job waits in the channel
C25_Witness ==
    /\ Cardinality(InFlight) = 2
    /\ Len(listings) = 3
    /\ jobs # <<>>

\* C26: the jobs admitted never exceed 1 plus the ticks consumed; every job
\* after the first is admitted in a step that consumes a tick that was
\* there; and a job once admitted never waits for the ticker: a waiting
\* worker can take it, and a fetch in flight can end, tick or no tick.
C26_Paced ==
    /\ [](/\ admitted <= 1 + ticksConsumed
          /\ \A w \in Workers :
                /\ worker[w].state = "fetching" => ENABLED WorkerDone(w, "ok")
                /\ (worker[w].state = "wait" /\ jobs # <<>>) => ENABLED WorkerTake(w))
    /\ [][(admitted' = admitted + 1 /\ admitted >= 1) =>
             (tickPending /\ ~tickPending' /\ ticksConsumed' = ticksConsumed + 1)]_vars

\* three jobs admitted on two ticks, the first fetch still in flight
C26_Witness ==
    /\ admitted = 3 /\ ticksConsumed = 2
    /\ ~tickPending
    /\ \E w \in Workers : worker[w].state = "fetching" /\ worker[w].index = 1

\* C27: in every state, a crash between two store writes included, a link
\* that the store holds as done has its listings count stored.
C27_CountBeforeDone ==
    \A l \in LinkNo : link[l].status = "done" => link[l].counted

\* the kept rows that link l has in the sheets
KeptRows(l) == {u \in URLs : l \in KeptBy(u)}

\* C28: whenever the instance is between two links, fetching the next one,
\* or not running (after a pause, a crash or the end of the run), every
\* link that the store holds as done has its rows in the sheet: as many
\* kept rows as its listings count. Stated for the runs in which no append
\* to the sheet failed.
C28_RowsBeforeNextLink ==
    ~appendFailed =>
       (pc[1] \in {"idle", "loop", "fetch"} =>
           \A l \in LinkNo :
              (link[l].status = "done" /\ link[l].counted) =>
                 Cardinality(KeptRows(l)) = link[l].count)

\* C29: an attempt whose fetch returned an error or no page ends as a
\* failure of the link: the step that handles it reports an error (retry
\* later, permanently failed, or paused), counts one more failure in a row
\* (the pause message carries the count when the run ends there), and
\* leaves the link not done.
C29_LinkLevelFailure ==
    [][(pc[1] = "handle" /\ pc'[1] # "handle"
          /\ (fetched[1].err \/ fetched[1].pages = 0)) =>
             LET l == item[1].link
             IN /\ link'[l].status \in {"pending", "failed"}
                /\ ev'.type \in {"will_retry", "perm_failed", "paused"}
                /\ ev'.link = l
                /\ pc'[1] = "loop" => consecutiveFailures'[1] = consecutiveFailures[1] + 1
                /\ pc'[1] = "idle" =>
                      (ev'.type = "paused" /\ ev'.a = consecutiveFailures[1] + 1)]_vars

\* a first failure was counted and its link sent back to the queue, and a
\* fetch without any page is about to be handled
C29_Witness ==
    /\ pc[1] = "handle"
    /\ fetched[1] = ZeroPages
    /\ consecutiveFailures[1] = 1
    /\ \E l \in LinkNo : link[l].status = "pending" /\ link[l].retry = 1

\* C30: when the call has returned, every persisted listing (one with an
\* id) is stored as saved if its enrichment succeeded and as failed if its
\* detail page could not be fetched or could not be parsed.
C30_FailedEnrichmentMarked ==
    enrichPc = "returned" =>
       \A k \in DOMAIN listings :
          listings[k] \in urlToIDMap =>
             listingStatus[listings[k]] =
                (IF \E j \in DOMAIN finalListings : finalListings[j].url = listings[k]
                 THEN "saved" ELSE "failed")

RECURSIVE DoneCountSum(_)
\* the sum of the stored listings counts of the done links among 1..n
DoneCountSum(n) ==
    IF n = 0 THEN 0
    ELSE DoneCountSum(n - 1) + (IF link[n].status = "done" THEN link[n].count ELSE 0)

\* C31: a Request stored as done has a stored listings-count equal to the
\* sum of the listings counts of all its done links, the links completed in
\* earlier runs included.
C31_CumulativeCount ==
    reqStatus = "done" => reqListings = DoneCountSum(NumLinks)

\* the link numbers of the queue q go up from front to back
Ascending(q) == \A a, b \in 1..Len(q) : a < b => q[a].link < q[b].link

\* C32: the retry queue is built in ascending link-number order; the item
\* attempted next is always the front of the queue; a failed link that is
\* tried again goes to the back, behind every item that was in the queue
\* when it failed; and no other step changes the queue of a running request.
C32_FIFO ==
    [][/\ (pc[1] = "started" /\ pc'[1] = "loop") => Ascending(queue'[1])
       /\ (pc[1] = "loop" /\ pc'[1] = "fetch") =>
             (item'[1] = Head(queue[1]) /\ queue'[1] = Tail(queue[1]))
       /\ (pc[1] = "handle" /\ pc'[1] = "loop") =>
             \/ queue'[1] = queue[1]
             \/ /\ Len(queue'[1]) = Len(queue[1]) + 1
                /\ SubSeq(queue'[1], 1, Len(queue[1])) = queue[1]
                /\ queue'[1][Len(queue'[1])].link = item[1].link
                /\ queue'[1][Len(queue'[1])].retryCount = item[1].retryCount + 1
       /\ (pc[1] = pc'[1] /\ pc[1] # "idle") => queue'[1] = queue[1]]_vars

\* link 1 failed while link 2 was waiting: link 2 is attempted, link 1 waits
\* behind it with its retry counted
C32_Witness ==
    /\ pc[1] = "fetch"
    /\ item[1] = [link |-> 2, retryCount |-> 0]
    /\ queue[1] = <<[link |-> 1, retryCount |-> 1]>>

Interrupted == pc[1] = "idle" /\ reqStatus = "in_progress" /\ ev.type # "paused"

\* C34: an interrupted request is eventually taken up again by the scheduler.
C34_InterruptedResumes ==
    Interrupted ~> (pc[1] # "idle")

\* C35: the step in which the restart goroutine exits the process is taken
\* only when the active-request counter is 0 and no call of the instance is
\* processing a request.
C35_ExitOnlyWhenIdle ==
    [][(restart[1].exiting /\ ~restart'[1].exiting) =>
          (activeRequests[1] = 0 /\ pc[1] = "idle")]_vars

\* C36: on a store that accepts the status paused, with the request resumed
\* every time it pauses, the request eventually is done or failed, whatever
\* attempts fail.
C36_Terminates ==
    pausedAllowed => <>(reqStatus \in {"done", "failed"})

\* the step is one in which the orchestrator issues the update of the
\* Request's status to s
WritesRequestStatus(s) ==
    \/ s = "in_progress" /\ pc[1] = "claimed" /\ pc'[1] = "started"
    \/ s = "paused" /\ pc[1] = "handle" /\ pc'[1] = "idle" /\ ev'.type = "paused"
    \/ s = "done" /\ pc[1] = "loop" /\ pc'[1] = "idle" /\ ev'.type = "success"
    \/ s = "failed" /\ pc[1] # "idle" /\ pc'[1] = "idle"
          /\ ev'.type \in {"request_failed:sheet", "request_failed:browser",
                           "request_failed:all_links"}

\* C37: every link status stored is one the schema of search_links accepts,
\* and every update of the Request's status that the orchestrator issues,
\* the one to paused included, is stored: after the step the stored status
\* is the one written.
C37_WritesStored ==
    /\ [](\A l \in LinkNo : link[l].status \in LinkStatus)
    /\ [][\A s \in RequestStatus : WritesRequestStatus(s) => reqStatus' = s]_vars

\* C38: the step that ends an attempt whose fetch returned an error or no
\* page leaves the listings table and the sheet as they were and adds no
\* success to the run; when the run goes on, its dedup set and its count of
\* kept listings are as before the attempt.
C38_FailureFrame ==
    [][(pc[1] = "handle" /\ pc'[1] # "handle"
          /\ (fetched[1].err \/ fetched[1].pages = 0)) =>
             /\ dbListings' = dbListings
             /\ sheets' = sheets
             /\ pc'[1] = "loop" =>
                   /\ seenListingURLs'[1] = seenListingURLs[1]
                   /\ totalKept'[1] = totalKept[1]
                   /\ linksSuccessful'[1] = linksSuccessful[1]]_vars

\* link 2 failed after link 1 had filled the dedup set, the table and the
\* sheet; the run goes on
C38_Witness ==
    /\ ev.type = "will_retry" /\ ev.link = 2
    /\ pc[1] = "loop"
    /\ \E u \in URLs : seenListingURLs[1][u] = 1 /\ dbListings[u] = <<1>>
    /\ totalKept[1] = 1

\* C39: the call always returns; nothing is ever sent on the closed results
\* channel; and when a call on N >= 1 listings has returned, the job sender
\* has closed the jobs channel, every worker has left its loop, the results
\* channel is closed and empty, and the collector has received N results.
C39_Terminates ==
    /\ <>(enrichPc = "returned")
    /\ [](~sendOnClosed)
    /\ []((enrichPc = "returned" /\ filteredCount >= 1) =>
            /\ sent = filteredCount /\ jobsClosed /\ jobs = <<>>
            /\ \A w \in Workers : worker[w].state \in {"unused", "exited"}
            /\ resultsClosed /\ results = <<>>
            /\ processedCount = filteredCount)

\* a call on three listings has returned; the last one had no id, so its
\* result came from the job sender
C39_Witness ==
    /\ enrichPc = "returned"
    /\ Len(listings) = 3
    /\ listings[3] \notin urlToIDMap
    /\ processedCount = 3
    /\ ~sendOnClosed

\* the label of every returned entry is the label extracted from its URL
LabelsMatch ==
    \A k \in 1..Len(ranges.ranges) :
        ranges.ranges[k].Label = ExtractPriceRangeLabel(ranges.ranges[k].URL)

\* C40: for every entry the sharder returns, the entry's Label equals
\* ExtractPriceRangeLabel of the entry's URL, whichever of price_min and
\* price_max the input URL carries.
C40_LabelMatchesURL ==
    (shardPc = "returned" /\ ranges.err = "none") => LabelsMatch

\* the part that holds: the labels agree whenever the input URL carries a
\* price_max, and when it carries neither parameter
C40_LabelMatchesWithCeiling ==
    (shardPc = "returned" /\ ranges.err = "none"
        /\ (~IsBlank(urlStr.price_max) \/ IsBlank(urlStr.price_min))) => LabelsMatch

\* a call on a URL with price_min = 50 and no price_max has returned
C40_FloorOnly ==
    /\ shardPc = "returned" /\ ranges.err = "none"
    /\ urlStr.price_min = IntParam(50) /\ urlStr.price_max = NoParam
    /\ ranges.ranges[1].Label = AllPrices
    /\ ExtractPriceRangeLabel(ranges.ranges[1].URL) = RangeLabel(50, 0)

====
